---- MODULE Spec2Model ----
(***************************************************************************)
(* Content-based duplicate file detection (exercises/find_duplicates.py):  *)
(* find_duplicates_basic walks a directory tree, fingerprints every path   *)
(* for which is_file() holds with a chunked MD5 read loop, groups the      *)
(* paths by fingerprint and the main block prints the groups.              *)
(***************************************************************************)
EXTENDS Integers, Sequences, FiniteSets, TLC

(***************************************************************************)
(* Bounds of the model.                                                    *)
(***************************************************************************)
\* Most entries (files, directories, links, ...) a scanned tree holds.
MaxEntries == 3
\* Deepest path below the root, in path components.
MaxDepth == 2
\* Width of the modelled digest, in hexadecimal digits (MD5 has 32).
DigestHexLen == 4

\* f.read(8192): the size of one chunk.
ChunkSize == 8192

Min(a, b) == IF a < b THEN a ELSE b

(***************************************************************************)
(* File contents.  A content is a byte string, described by its length and *)
(* the value of its first byte: byte i (from 1) is (seed + i - 1) % 256.   *)
(* Two descriptions denote identical bytes exactly when Bytes agrees.      *)
(***************************************************************************)
ByteAt(c, i) == (c.seed + i - 1) % 256

Bytes(c) == [i \in 1..c.len |-> ByteAt(c, i)]

NoContent == [len |-> 0, seed |-> 0]

\* The contents of the files of the trees scanned under Spec.
Contents ==
    { [len |-> 0, seed |-> 0], [len |-> 1, seed |-> 104],
      [len |-> 1, seed |-> 119] }

\* The contents of the files digested under SpecDigest: lengths around the
\* chunk size, so that a file is read in zero, one, two or three chunks.
BigContents ==
    { [len |-> n, seed |-> 7] :
        n \in {0, 1, ChunkSize - 1, ChunkSize, ChunkSize + 1, 2 * ChunkSize + 1} }

\* The content of the file the symbolic links of those trees point to.
LinkContent == [len |-> 1, seed |-> 104]

\* f.read(n) at offset pos of a file holding content c: the next n bytes, or
\* what is left of the file, or the empty string at the end of the file.
FileRead(c, pos, n) ==
    [i \in 1..Min(n, c.len - pos) |-> ByteAt(c, pos + i)]

(***************************************************************************)
(* The digest.  hashlib.md5() is an accumulator: update(chunk) folds the   *)
(* bytes of the chunk, in order, into the running state; hexdigest()       *)
(* finalises the state with the number of bytes seen and renders the       *)
(* result as a fixed number of hexadecimal digits.                         *)
(***************************************************************************)
HashMod == 16 ^ DigestHexLen

MD5Init == [h |-> 5381 % HashMod, n |-> 0]

MD5Step(st, b) == [h |-> (st.h * 33 + b + 1) % HashMod, n |-> st.n + 1]

\* The left fold of MD5Step over s[lo..hi], split in halves (the left half
\* is evaluated before the right one is entered) so that the evaluation
\* depth stays logarithmic in the length of the chunk.
RECURSIVE MD5Fold(_, _, _, _)
MD5Fold(st, s, lo, hi) ==
    IF lo > hi THEN st
    ELSE IF lo = hi THEN MD5Step(st, s[lo])
    ELSE LET mid == (lo + hi) \div 2
             left == MD5Fold(st, s, lo, mid)
         IN  IF left.n >= 0 THEN MD5Fold(left, s, mid + 1, hi) ELSE left

MD5Update(st, data) == MD5Fold(st, data, 1, Len(data))

HexChars ==
    << "0", "1", "2", "3", "4", "5", "6", "7",
       "8", "9", "a", "b", "c", "d", "e", "f" >>

MD5Final(st) == (st.h * 31 + st.n) % HashMod

HexDigest(st) ==
    [i \in 1..DigestHexLen |->
        HexChars[((MD5Final(st) \div (16 ^ (DigestHexLen - i))) % 16) + 1]]

(***************************************************************************)
(* The scanned tree.  A path is the sequence of its components below the   *)
(* root; an entry records what the path is (kind, as lstat sees it), what  *)
(* it resolves to when links are followed (target, as stat sees it) and,   *)
(* when it resolves to a regular file, the bytes open() would read.        *)
(***************************************************************************)
Names == {"a", "b", "c"}

Paths == UNION { [1..d -> Names] : d \in 1..MaxDepth }

Parent(p) == SubSeq(p, 1, Len(p) - 1)

Entries(contents) ==
    { [kind |-> "file", target |-> "file", content |-> c] : c \in contents }
    \cup { [kind |-> "symlink", target |-> "file", content |-> LinkContent] }
    \cup { [kind |-> k, target |-> k, content |-> NoContent] : k \in {"dir", "fifo"} }

\* The paths at which tree t can take one more entry: directly below the
\* root, or in a directory of t.
Addable(t) ==
    { p \in Paths \ DOMAIN t :
        Len(p) > 1 => (Parent(p) \in DOMAIN t /\ t[Parent(p)].kind = "dir") }

\* Tree t with entry e added at path p.
Extend(t, p, e) == [q \in DOMAIN t \cup {p} |-> IF q = p THEN e ELSE t[q]]

\* Every tree of at most k entries: each entry below the first level lies in
\* a directory of the tree.
RECURSIVE TreesOf(_)
TreesOf(k) ==
    IF k = 0 THEN { << >> }
    ELSE LET smaller == TreesOf(k - 1)
         IN  smaller \cup
             UNION { { Extend(t, p, e) :
                         p \in Addable(t), e \in Entries(Contents) } :
                     t \in smaller }

Trees == TreesOf(MaxEntries)

\* Trees of one or two regular files whose lengths lie around the chunk size.
DigestTrees ==
    UNION { [S -> { [kind |-> "file", target |-> "file", content |-> c] :
                      c \in BigContents }] :
            S \in (SUBSET { <<"a">>, <<"b">> }) \ {{}} }

\* Mutant of IsFile: empty files are skipped.
IsFileNotEmpty(e) == e.target = "file" /\ e.content.len > 0

\* Path.is_file(): the path is a regular file, or a symbolic link pointing
\* to a regular file.
IsFile(e) == e.target = "file"

\* A regular file proper: a path that is itself a regular file.
IsRegular(e) == e.kind = "file"

(***************************************************************************)
(* The state of one run of the program.                                    *)
(***************************************************************************)
VARIABLES
    tree,        \* the entries under the scanned root
    pc,          \* the statement the program is at
    remaining,   \* the paths rglob("*") has not yielded yet
    filepath,    \* the loop variable of find_duplicates_basic
    hash_dict,   \* fingerprint -> paths, in key insertion order
    hasher,      \* the digest accumulator of get_file_hash
    pos,         \* the offset of the open file f
    chunk,       \* the chunk read last
    duplicates,  \* the value find_duplicates_basic returned
    gi,          \* position of the report loop among the groups
    fi,          \* position of the report loop among a group's files
    output,      \* the lines printed so far
    fed,         \* history: the bytes given to hasher.update for this file
    calls,       \* history: how often get_file_hash was called, per path
    walked,      \* history: the paths rglob has yielded, in that order
    prev_output, \* the lines the run before this one printed
    rerun,       \* whether the program ran before on this tree
    root,        \* what the directory argument names: "dir", "file", "missing"
    all_records,    \* merge_and_deduplicate: its argument
    unique_records, \* merge_and_deduplicate: identifier -> record, in key order
    ri,             \* merge_and_deduplicate: position of the loop in all_records
    merged,         \* merge_and_deduplicate: the list returned
    mpc             \* merge_and_deduplicate: "idle", "loop" or "returned"

\* The state of CSVMerger.merge_and_deduplicate.
mergeVars == << all_records, unique_records, ri, merged, mpc >>

vars ==
    << tree, pc, remaining, filepath, hash_dict, hasher, pos, chunk,
       duplicates, gi, fi, output, fed, calls, walked, prev_output, rerun,
       root, mergeVars >>

NoPath == << >>

\* What directory can name: a directory, a file, or nothing at all.
RootKinds == {"dir", "file", "missing"}

\* What lies under a root of kind r: only a directory holds entries.
TreesUnder(r) == IF r = "dir" THEN Trees ELSE { << >> }

\* Path(directory).rglob("*"): the entries to yield.  On a directory, every
\* entry below it; on anything else (a file, a path that does not exist)
\* nothing, without any error.
RGlob(r, t) == IF r = "dir" THEN DOMAIN t ELSE {}

\* merge_and_deduplicate is not running.
MergeIdle ==
    /\ all_records = << >>
    /\ unique_records = << >>
    /\ ri = 1
    /\ merged = << >>
    /\ mpc = "idle"

\* The state in which the program starts on tree t.
Start(t) ==
    /\ tree = t
    /\ pc = "for"
    /\ remaining = RGlob(root, t)
    /\ filepath = NoPath
    /\ hash_dict = << >>
    /\ hasher = MD5Init
    /\ pos = 0
    /\ chunk = << >>
    /\ duplicates = << >>
    /\ gi = 1
    /\ fi = 1
    /\ output = << >>
    /\ fed = << >>
    /\ calls = [p \in DOMAIN t |-> 0]
    /\ walked = << >>

Init ==
    \E r \in RootKinds : \E t \in TreesUnder(r) :
        /\ root = r
        /\ Start(t)
        /\ prev_output = << >>
        /\ rerun = FALSE
        /\ MergeIdle

InitDigest ==
    \E t \in DigestTrees :
        /\ root = "dir"
        /\ Start(t)
        /\ prev_output = << >>
        /\ rerun = FALSE
        /\ MergeIdle

\* The program ends at once (an uncaught exception, an interrupt): its
\* memory is gone.  What it printed stays printed; the model keeps, of the
\* memory, the index as it stood, as the record of how far the scan had come.
Ends(how) ==
    /\ pc' = how
    /\ remaining' = {}
    /\ filepath' = NoPath
    /\ hasher' = MD5Init
    /\ pos' = 0
    /\ chunk' = << >>
    /\ duplicates' = << >>
    /\ gi' = 1
    /\ fi' = 1
    /\ fed' = << >>
    /\ calls' = [p \in DOMAIN tree |-> 0]
    /\ walked' = << >>
    /\ UNCHANGED << tree, hash_dict, output, prev_output, rerun,
                    root, mergeVars >>

(***************************************************************************)
(* find_duplicates_basic: the walk.                                        *)
(***************************************************************************)
\* Mutant of Rest: the walk yields a path it has yielded before.
RestKeepsPath(rem, p) == rem

\* rglob("*") yields every entry below the root once, in no guaranteed
\* order: what is left to yield after path p.
Rest(rem, p) == rem \ {p}

\* for filepath in Path(directory).rglob("*"): if filepath.is_file():
\* file_hash = get_file_hash(filepath) -- up to hasher = hashlib.md5().
ForNext ==
    /\ pc = "for"
    /\ \E p \in remaining :
         /\ filepath' = p
         /\ remaining' = Rest(remaining, p)
         /\ walked' = Append(walked, p)
         /\ IF IsFile(tree[p])
            THEN /\ pc' = "open"
                 /\ hasher' = MD5Init
                 /\ calls' = [calls EXCEPT ![p] = @ + 1]
            ELSE /\ pc' = "for"
                 /\ UNCHANGED << hasher, calls >>
    /\ UNCHANGED << tree, hash_dict, pos, chunk, duplicates, gi, fi, output,
                    fed, prev_output, rerun,
                    root, mergeVars >>

(***************************************************************************)
(* get_file_hash.                                                          *)
(***************************************************************************)
\* with open(filepath, "rb") as f:
Open ==
    /\ pc = "open"
    /\ pc' = "read"
    /\ pos' = 0
    /\ fed' = << >>
    /\ UNCHANGED << tree, remaining, filepath, hash_dict, hasher, chunk,
                    duplicates, gi, fi, output, calls, walked, prev_output, rerun,
                    root, mergeVars >>

\* open() raises OSError (permission denied, the file was deleted after the
\* walk found it): nothing catches it, the program ends with a traceback.
OpenFails ==
    /\ pc = "open"
    /\ Ends("crashed")

\* Mutant of LoopContinues: the loop goes on only after a full chunk.
LoopWhileFullChunk(ch) == Len(ch) = ChunkSize

\* while chunk := ...: the loop goes on while the chunk read is not empty.
LoopContinues(ch) == ch # << >>

\* while chunk := f.read(8192): the read and the test of the loop.
Read ==
    /\ pc = "read"
    /\ chunk' = FileRead(tree[filepath].content, pos, ChunkSize)
    /\ pos' = pos + Len(chunk')
    /\ pc' = IF LoopContinues(chunk') THEN "update" ELSE "return"
    /\ UNCHANGED << tree, remaining, filepath, hash_dict, hasher, duplicates,
                    gi, fi, output, fed, calls, walked, prev_output, rerun,
                    root, mergeVars >>

\* f.read raises OSError in mid-stream: nothing catches it either.
ReadFails ==
    /\ pc = "read"
    /\ Ends("crashed")

\* hasher.update(chunk)
Update ==
    /\ pc = "update"
    /\ hasher' = MD5Update(hasher, chunk)
    /\ fed' = fed \o chunk
    /\ pc' = "read"
    /\ UNCHANGED << tree, remaining, filepath, hash_dict, pos, chunk,
                    duplicates, gi, fi, output, calls, walked, prev_output, rerun,
                    root, mergeVars >>

\* Mutant of DictAppend: hash_dict[file_hash] = [filepath], which replaces
\* the bucket instead of appending to it.
DictAppendOverwrites(d, h, p) ==
    IF \E i \in 1..Len(d) : d[i].hash = h
    THEN [i \in 1..Len(d) |->
            IF d[i].hash = h THEN [hash |-> h, files |-> << p >>] ELSE d[i]]
    ELSE Append(d, [hash |-> h, files |-> << p >>])

\* return hasher.hexdigest(), and back in find_duplicates_basic
\* hash_dict[file_hash].append(filepath): a defaultdict(list) keeps its keys
\* in the order of their first insertion.
DictAppend(d, h, p) ==
    IF \E i \in 1..Len(d) : d[i].hash = h
    THEN [i \in 1..Len(d) |->
            IF d[i].hash = h
            THEN [hash |-> h, files |-> Append(d[i].files, p)]
            ELSE d[i]]
    ELSE Append(d, [hash |-> h, files |-> << p >>])

Return ==
    /\ pc = "return"
    /\ hash_dict' = DictAppend(hash_dict, HexDigest(hasher), filepath)
    /\ pc' = "for"
    /\ pos' = 0
    /\ chunk' = << >>
    /\ UNCHANGED << tree, remaining, filepath, hasher, duplicates, gi, fi,
                    output, fed, calls, walked, prev_output, rerun,
                    root, mergeVars >>

\* Mutant of IsDuplicate: len(files) > 0.
IsDuplicateFromOne(e) == Len(e.files) > 0

\* duplicates = {h: files for h, files in hash_dict.items() if len(files) > 1}
IsDuplicate(e) == Len(e.files) > 1

Duplicates(d) == SelectSeq(d, IsDuplicate)

\* Mutant of ForEnd: return duplicates inside the loop body, so that the
\* function returns while the walk still has paths to yield.
ForEndEarly ==
    /\ pc = "for"
    /\ duplicates' = Duplicates(hash_dict)
    /\ gi' = 1
    /\ pc' = "report"
    /\ UNCHANGED << tree, remaining, filepath, hash_dict, hasher, pos, chunk,
                    fi, output, fed, calls, walked, prev_output, rerun,
                    root, mergeVars >>

\* The walk is exhausted: find_duplicates_basic returns duplicates to the
\* main block, which starts its loop over duplicates.items().
ForEnd ==
    /\ pc = "for"
    /\ remaining = {}
    /\ duplicates' = Duplicates(hash_dict)
    /\ gi' = 1
    /\ pc' = "report"
    /\ UNCHANGED << tree, remaining, filepath, hash_dict, hasher, pos, chunk,
                    fi, output, fed, calls, walked, prev_output, rerun,
                    root, mergeVars >>

(***************************************************************************)
(* The main block: the report.  A printed line is the sequence of the      *)
(* pieces of text it is made of.                                           *)
(***************************************************************************)
\* str(path): the components joined by "/".
RECURSIVE PathStr(_)
PathStr(p) ==
    IF Len(p) <= 1 THEN p
    ELSE << Head(p), "/" >> \o PathStr(Tail(p))

\* print(f"Hash:"): the f-string holds no field, the fingerprint is not in it.
HashLine(h) == << "Hash:" >>

\* print(f" - {f}")
FileLine(p) == << " - " >> \o PathStr(p)

\* print("/n"): a slash and the letter n.
SeparatorLine == << "/n" >>

PrintHash ==
    /\ pc = "report"
    /\ gi <= Len(duplicates)
    /\ output' = Append(output, HashLine(duplicates[gi].hash))
    /\ fi' = 1
    /\ pc' = "files"
    /\ UNCHANGED << tree, remaining, filepath, hash_dict, hasher, pos, chunk,
                    duplicates, gi, fed, calls, walked, prev_output, rerun,
                    root, mergeVars >>

PrintFile ==
    /\ pc = "files"
    /\ fi <= Len(duplicates[gi].files)
    /\ output' = Append(output, FileLine(duplicates[gi].files[fi]))
    /\ fi' = fi + 1
    /\ UNCHANGED << tree, pc, remaining, filepath, hash_dict, hasher, pos,
                    chunk, duplicates, gi, fed, calls, walked, prev_output, rerun,
                    root, mergeVars >>

PrintSeparator ==
    /\ pc = "files"
    /\ fi > Len(duplicates[gi].files)
    /\ output' = Append(output, SeparatorLine)
    /\ gi' = gi + 1
    /\ pc' = "report"
    /\ UNCHANGED << tree, remaining, filepath, hash_dict, hasher, pos, chunk,
                    duplicates, fi, fed, calls, walked, prev_output, rerun,
                    root, mergeVars >>

\* The loop over the groups is exhausted: the program ends.
Exit ==
    /\ pc = "report"
    /\ gi > Len(duplicates)
    /\ pc' = "done"
    /\ UNCHANGED << tree, remaining, filepath, hash_dict, hasher, pos, chunk,
                    duplicates, gi, fi, output, fed, calls, walked, prev_output, rerun,
                    root, mergeVars >>

\* The statements at which the program is still running.
Running == {"for", "open", "read", "update", "return", "report", "files"}

\* The statements of find_duplicates_basic and get_file_hash.
Scanning == {"for", "open", "read", "update", "return"}

\* An operator interrupt (KeyboardInterrupt) ends the program where it is.
Interrupt ==
    /\ pc \in Running
    /\ Ends("aborted")

\* The program is run again on the unchanged tree after a finished run.
Rerun ==
    /\ pc = "done"
    /\ prev_output' = output
    /\ rerun' = TRUE
    /\ pc' = "for"
    /\ remaining' = RGlob(root, tree)
    /\ filepath' = NoPath
    /\ hash_dict' = << >>
    /\ hasher' = MD5Init
    /\ pos' = 0
    /\ chunk' = << >>
    /\ duplicates' = << >>
    /\ gi' = 1
    /\ fi' = 1
    /\ output' = << >>
    /\ fed' = << >>
    /\ calls' = [p \in DOMAIN tree |-> 0]
    /\ walked' = << >>
    /\ UNCHANGED << tree, root, mergeVars >>

Next ==
    \/ ForNext
    \/ Open
    \/ OpenFails
    \/ Read
    \/ ReadFails
    \/ Update
    \/ Return
    \/ ForEnd
    \/ PrintHash
    \/ PrintFile
    \/ PrintSeparator
    \/ Exit
    \/ Interrupt

NextTwice == Next \/ Rerun

\* One run of the program on a tree of small files.
Spec == Init /\ [][Next]_vars

\* One run on files whose lengths lie around the chunk size.
SpecDigest == InitDigest /\ [][Next]_vars

\* Runs of the program, one after the other, on an unchanged tree.
SpecTwice == Init /\ [][NextTwice]_vars

(***************************************************************************)
(* CSVMerger.merge_and_deduplicate (exercises/CSVMerger.py).  A record is  *)
(* a row of a CSV file: its email, a string, is the sequence of its        *)
(* characters; its signup_date is the text of the field, given as the      *)
(* numbers a "-" separates in it (the empty text has none).                *)
(***************************************************************************)
\* Most records the list given to merge_and_deduplicate holds.
MaxRecords == 3

\* The emails of the records: one address in three spellings, and another.
Emails == { << "a" >>, << "A", " " >>, << " ", "a" >>, << "b" >> }

\* None, the value csv.DictReader gives a field its row is too short to hold:
\* no string, so written as a sequence whose one element is no character.
None == << "None" >>

\* The signup dates of the records: "2024-01-15", "2024-03-01",
\* "2024-02-30" (no such day) and "" (no date at all).
DateTexts == { << 2024, 1, 15 >>, << 2024, 3, 1 >>, << 2024, 2, 30 >>, << >> }

Records ==
    [email : Emails, signup_date : DateTexts]
        \cup { [email |-> None, signup_date |-> << >>] }

RecordLists == UNION { [1..n -> Records] : n \in 0..MaxRecords }

\* str.lower(), on the letters of the emails.
LowerChar(ch) == IF ch = "A" THEN "a" ELSE IF ch = "B" THEN "b" ELSE ch

Lower(str) == [i \in 1..Len(str) |-> LowerChar(str[i])]

\* str.strip(): leading and trailing blanks removed.
RECURSIVE StripLeft(_)
StripLeft(str) ==
    IF str # << >> /\ Head(str) = " " THEN StripLeft(Tail(str)) ELSE str

RECURSIVE StripRight(_)
StripRight(str) ==
    IF str # << >> /\ str[Len(str)] = " "
    THEN StripRight(SubSeq(str, 1, Len(str) - 1))
    ELSE str

Strip(str) == StripRight(StripLeft(str))

\* identifier = record[self.dedupe_field].lower().strip()
Identifier(record) == Strip(Lower(record.email))

IsLeapYear(y) == (y % 4 = 0 /\ y % 100 # 0) \/ y % 400 = 0

DaysInMonth(y, m) ==
    IF m = 2 THEN (IF IsLeapYear(y) THEN 29 ELSE 28)
    ELSE IF m \in {4, 6, 9, 11} THEN 30 ELSE 31

\* A datetime at midnight, as a number that orders as datetimes do.
DateTime(y, m, d) == (y * 100 + m) * 100 + d

\* datetime.min
DateTimeMin == DateTime(1, 1, 1)

\* parse_date: strptime(date_str, "%Y-%m-%d"), or datetime.min when the text
\* is no date of that form.
ParseDate(text) ==
    IF /\ Len(text) = 3
       /\ text[1] \in 1..9999
       /\ text[2] \in 1..12
       /\ text[3] \in 1..DaysInMonth(text[1], text[2])
    THEN DateTime(text[1], text[2], text[3])
    ELSE DateTimeMin

\* Mutant of MoreRecent: the comparison is turned round.
LessRecent(record_date, existing_date) == record_date < existing_date

\* if record_date > existing_date:
MoreRecent(record_date, existing_date) == record_date > existing_date

\* The state in which merge_and_deduplicate is entered with list l; the
\* duplicate finder is not running.
InitMerge ==
    /\ root = "dir"
    /\ Start(<< >>)
    /\ prev_output = << >>
    /\ rerun = FALSE
    /\ all_records \in RecordLists
    /\ unique_records = << >>
    /\ ri = 1
    /\ merged = << >>
    /\ mpc = "loop"

scanVars ==
    << tree, pc, remaining, filepath, hash_dict, hasher, pos, chunk,
       duplicates, gi, fi, output, fed, calls, walked, prev_output, rerun,
       root >>

\* One pass of for record in all_records: the record is stored under its
\* identifier when the identifier is new or the record is more recent than
\* the one stored; a dict keeps a key where it was first inserted.
MergeStep ==
    /\ mpc = "loop"
    /\ ri <= Len(all_records)
    /\ all_records[ri].email # None
    /\ LET record == all_records[ri]
           identifier == Identifier(record)
           record_date == ParseDate(record.signup_date)
       IN  unique_records' =
             IF \A k \in 1..Len(unique_records) : unique_records[k].key # identifier
             THEN Append(unique_records, [key |-> identifier, record |-> record])
             ELSE [k \in 1..Len(unique_records) |->
                     IF /\ unique_records[k].key = identifier
                        /\ MoreRecent(record_date,
                                      ParseDate(unique_records[k].record.signup_date))
                     THEN [key |-> identifier, record |-> record]
                     ELSE unique_records[k]]
    /\ ri' = ri + 1
    /\ UNCHANGED << all_records, merged, mpc, scanVars >>

\* record[self.dedupe_field].lower() on an email that is None: the
\* AttributeError leaves merge_and_deduplicate, which returns nothing.
MergeRaises ==
    /\ mpc = "loop"
    /\ ri <= Len(all_records)
    /\ all_records[ri].email = None
    /\ mpc' = "raised"
    /\ UNCHANGED << all_records, unique_records, ri, merged, scanVars >>

\* return list(unique_records.values())
MergeReturn ==
    /\ mpc = "loop"
    /\ ri > Len(all_records)
    /\ merged' = [k \in 1..Len(unique_records) |-> unique_records[k].record]
    /\ mpc' = "returned"
    /\ UNCHANGED << all_records, unique_records, ri, scanVars >>

NextMerge == MergeStep \/ MergeRaises \/ MergeReturn

\* One call of merge_and_deduplicate on a list of at most MaxRecords records.
SpecMerge == InitMerge /\ [][NextMerge]_vars

(***************************************************************************)
(* Properties.                                                             *)
(***************************************************************************)
\* find_duplicates_basic has returned its result to the main block.
Returned == pc \in {"report", "files", "done"}

RegularFiles == { p \in DOMAIN tree : IsRegular(tree[p]) }

SameContent(p, q) == Bytes(tree[p].content) = Bytes(tree[q].content)

Members(e) == { e.files[k] : k \in 1..Len(e.files) }

SameGroup(p, q) ==
    \E i \in 1..Len(duplicates) : {p, q} \subseteq Members(duplicates[i])

InSomeGroup(p) ==
    \E i \in 1..Len(duplicates) : p \in Members(duplicates[i])

\* The digest of a whole content, taken in one piece.
Fingerprint(c) == HexDigest(MD5Update(MD5Init, Bytes(c)))

\* The place of path p in the order of discovery.
Discovered(p) == CHOOSE k \in 1..Len(walked) : walked[k] = p

\* How often path p occurs in the buckets of index d.
Occurrences(d, p) ==
    Cardinality({ ik \in UNION { {i} \X (1..Len(d[i].files)) : i \in 1..Len(d) } :
                    d[ik[1]].files[ik[2]] = p })

\* C1: once find_duplicates_basic has returned, any two regular files of the
\* tree with identical bytes are members of one and the same returned group,
\* whatever their names and directories.
C1_IdenticalContentSameGroup ==
    Returned =>
        \A p, q \in RegularFiles :
            (p # q /\ SameContent(p, q)) => SameGroup(p, q)

\* C1 happens: a finished run grouped two non-empty identical files that
\* differ in name and in directory.
C1_Witness ==
    /\ pc = "done"
    /\ \E p, q \in RegularFiles :
         /\ Len(p) # Len(q)
         /\ p[Len(p)] # q[Len(q)]
         /\ tree[p].content.len > 0
         /\ SameContent(p, q)
         /\ SameGroup(p, q)

\* C2: the returned mapping holds exactly the buckets of the index with two
\* or more members, unchanged; the members of every bucket stand in the order
\* of their discovery; and a hashed path whose fingerprint no other hashed
\* path shares is in no returned group.
C2_ExactlyBucketsOfTwoOrMore ==
    Returned =>
        /\ \A i \in 1..Len(duplicates) :
             /\ Len(duplicates[i].files) >= 2
             /\ \E j \in 1..Len(hash_dict) : hash_dict[j] = duplicates[i]
        /\ \A j \in 1..Len(hash_dict) :
             Len(hash_dict[j].files) >= 2 =>
                 \E i \in 1..Len(duplicates) : duplicates[i] = hash_dict[j]
        /\ \A j \in 1..Len(hash_dict) :
             \A k, l \in 1..Len(hash_dict[j].files) :
                 k < l => Discovered(hash_dict[j].files[k])
                            < Discovered(hash_dict[j].files[l])
        /\ \A p \in DOMAIN tree :
             ( /\ IsFile(tree[p])
               /\ \A q \in DOMAIN tree :
                    (q # p /\ IsFile(tree[q])) =>
                        Fingerprint(tree[q].content) # Fingerprint(tree[p].content) )
             => ~ InSomeGroup(p)

\* C2 happens: a finished run whose index held a bucket of two and a bucket
\* of one returned the first alone.
C2_Witness ==
    /\ pc = "done"
    /\ Len(hash_dict) = 2
    /\ Len(duplicates) = 1
    /\ Len(duplicates[1].files) = 2
    /\ \E p \in RegularFiles : ~ InSomeGroup(p)

\* C3: at every point of a run no path occurs more than once in the whole
\* index (so in one bucket, once), every member of the index is a path of
\* the tree, and get_file_hash has been called at most once per path.
C3_PathIndexedAndHashedOnce ==
    /\ \A p \in DOMAIN tree : calls[p] <= 1 /\ Occurrences(hash_dict, p) <= 1
    /\ \A j \in 1..Len(hash_dict) : Members(hash_dict[j]) \subseteq DOMAIN tree

\* C3 happens: a finished run indexed three paths, two of them in one bucket.
C3_Witness ==
    /\ pc = "done"
    /\ Len(hash_dict) = 2
    /\ \A p \in DOMAIN tree : calls[p] = 1 /\ Occurrences(hash_dict, p) = 1
    /\ Cardinality(DOMAIN tree) = 3

\* The fingerprint of the empty content.
EmptyDigest == HexDigest(MD5Init)

EmptyFiles == { p \in RegularFiles : tree[p].content.len = 0 }

\* C4: get_file_hash leaves its loop on an empty file without any update of
\* the accumulator and returns the fingerprint of the empty content; and
\* when the tree holds two or more empty regular files the result holds one
\* group, keyed by that fingerprint, with all of them, and no other group
\* holds any of them.
C4_EmptyFilesGrouped ==
    /\ (pc = "return" /\ tree[filepath].content.len = 0) =>
           (fed = << >> /\ HexDigest(hasher) = EmptyDigest)
    /\ (Returned /\ Cardinality(EmptyFiles) >= 2) =>
           \E i \in 1..Len(duplicates) :
               /\ duplicates[i].hash = EmptyDigest
               /\ EmptyFiles \subseteq Members(duplicates[i])
               /\ \A j \in 1..Len(duplicates) :
                      j # i => Members(duplicates[j]) \cap EmptyFiles = {}

\* C4 happens: a finished run on a tree with two empty regular files and a
\* non-empty one returned the group of the empty ones.
C4_Witness ==
    /\ pc = "done"
    /\ Cardinality(EmptyFiles) = 2
    /\ Cardinality(RegularFiles) = 3
    /\ \E i \in 1..Len(duplicates) : Members(duplicates[i]) = EmptyFiles

\* What holds of the read loop at every point: the chunk held is at most
\* ChunkSize bytes long; the bytes given to the accumulator so far are the
\* first bytes of the file, each once and in file order; a chunk read and
\* not yet given is the part of the file that follows them; and once the
\* loop is left the accumulator has been given the whole file and the
\* fingerprint is the digest of the whole content taken in one piece.
ChunkedDigestInv ==
    /\ Len(chunk) <= ChunkSize
    /\ pc \in {"read", "update", "return"} =>
         LET c == tree[filepath].content
             pending == IF pc = "update" THEN Len(chunk) ELSE 0
         IN  /\ pos <= c.len
             /\ Len(fed) = pos - pending
             /\ fed = [i \in 1..Len(fed) |-> ByteAt(c, i)]
             /\ pc = "update" =>
                  /\ chunk # << >>
                  /\ chunk = [i \in 1..Len(chunk) |-> ByteAt(c, Len(fed) + i)]
             /\ pc = "return" =>
                  /\ fed = Bytes(c)
                  /\ HexDigest(hasher) = Fingerprint(c)

\* A pass of the read loop that enters the loop body has moved the offset
\* forward, and not past the end of the file: the number of passes is bounded
\* by the length of the file, so the loop ends.
ReadLoopProgress ==
    (pc = "read" /\ pc' = "update") =>
        (pos' > pos /\ pos' <= tree[filepath].content.len)

\* C5: for a file of any length the read loop keeps ChunkedDigestInv (every
\* byte is given to the accumulator once, in file order, in chunks of at
\* most 8192 bytes, one chunk held at a time, and the fingerprint returned is
\* the digest of the whole content), and it terminates: every pass moves the
\* offset forward within the file.
C5_ChunkedDigest ==
    /\ []ChunkedDigestInv
    /\ [][ReadLoopProgress]_vars

\* C5 happens: the loop was left on a file of two full chunks and one byte.
C5_Witness ==
    /\ pc = "return"
    /\ tree[filepath].content.len = 2 * ChunkSize + 1
    /\ pos = 2 * ChunkSize + 1
    /\ Len(fed) = 2 * ChunkSize + 1

\* C6: a failure to open or to read one file is not raised out of
\* find_duplicates_basic: the program never ends on such a failure (the scan
\* goes on with the other files and returns the duplicates among them).
C6_FailureNotRaised == pc # "crashed"

\* Every path of the tree that is_file() accepts is in the index.
AllIndexed ==
    \A p \in DOMAIN tree : IsFile(tree[p]) => Occurrences(hash_dict, p) = 1

\* C7: nothing is printed before the scan has hashed and indexed every file:
\* while find_duplicates_basic runs, and after a run that an interrupt or an
\* error ended during the scan, the output is empty.
C7_ReportAllOrNothing ==
    /\ output # << >> => (AllIndexed /\ pc \notin Scanning /\ pc # "crashed")
    /\ ~AllIndexed => output = << >>

\* C7 happens: an interrupt ended the scan when the index held a group of
\* two and a file was still to be indexed; nothing was printed.
C7_Witness ==
    /\ pc = "aborted"
    /\ output = << >>
    /\ \E j \in 1..Len(hash_dict) : Len(hash_dict[j].files) >= 2
    /\ ~AllIndexed

\* C8: a second finished run on the unchanged tree prints exactly what the
\* run before it printed, in whatever order the walk delivers the files.
C8_SameReportTwice == (rerun /\ pc = "done") => output = prev_output

\* Line l holds the text h.
Contains(l, h) ==
    \E o \in 0..(Len(l) - Len(h)) : SubSeq(l, o + 1, o + Len(h)) = h

\* C9: the report of a finished run shows the fingerprint of every group,
\* every member path on a line of its own, a blank line between groups, and
\* is not empty when there is no group.
C9_ReportFormat ==
    pc = "done" =>
        /\ duplicates = << >> => output # << >>
        /\ \A i \in 1..Len(duplicates) :
             /\ \E k \in 1..Len(output) : Contains(output[k], duplicates[i].hash)
             /\ \A p \in Members(duplicates[i]) :
                  \E k \in 1..Len(output) : Contains(output[k], PathStr(p))
        /\ Len(duplicates) >= 2 => \E k \in 1..Len(output) : output[k] = << >>

\* C10: every path hashed or indexed is a regular file of the tree, and once
\* find_duplicates_basic has returned every regular file of the tree, at any
\* depth, has been hashed and indexed.
C10_OnlyRegularFilesHashed ==
    /\ \A p \in DOMAIN tree :
         (calls[p] > 0 \/ Occurrences(hash_dict, p) > 0) => IsRegular(tree[p])
    /\ Returned =>
         \A p \in RegularFiles : calls[p] = 1 /\ Occurrences(hash_dict, p) = 1

\* The exit status of a program that has ended: 0 when the main block ran to
\* its end, 1 when an uncaught exception ended it.
ExitCode == IF pc = "done" THEN 0 ELSE 1

\* C11: a root that does not exist or is not a directory is rejected before
\* the walk: no result is returned for it as if the scan had succeeded, and
\* the program does not end with exit status 0 as a completed scan does.
C11_BadRootRejected ==
    root # "dir" =>
        /\ ~Returned
        /\ pc \in {"done", "crashed"} => ExitCode = 1

\* The records of the input whose identifier is key.
WithKey(key) ==
    { i \in 1..Len(all_records) : Identifier(all_records[i]) = key }

====
